---- MODULE Spec2Model ----
(***************************************************************************)
(* A model of the mindfulme-api backend: the authentication handlers       *)
(* (signup, signin), the token service (token::create, token::decode) and  *)
(* the check-in handlers (create_checkin, get_user_checkins).              *)
(*                                                                         *)
(* Conventions.  An Option<T> is a set with at most one element: {} is     *)
(* None and {x} is Some(x).  A Rust String that the code measures          *)
(* (password) is a sequence of characters; a String that the code only     *)
(* compares or copies (email, message) is a TLA+ string.                   *)
(***************************************************************************)
EXTENDS Integers, Sequences, FiniteSets, TLC

\* ------------------------------------------------------------------ bounds

\* Requests accepted over a run of the authentication handlers.
MaxRequests == 3

\* Tokens issued over a run of the token service.
MaxTokens == 2

\* Seconds the clock may advance between the two clock reads of Claims::new.
MaxSkew == 1

\* Documents in the check-in collection.
MaxCheckins == 2

VARIABLES
    users,      \* the "users" collection: a set of User documents
    nextId,     \* the next ObjectId the store assigns
    started,    \* requests accepted so far (bounded by MaxRequests)
    h,          \* the in-flight handlers: slot -> locals of the async fn
    now,        \* the wall clock, in Unix-epoch seconds
    origin,     \* history: ObjectId -> the signup body the account came from
    tokens,     \* the tokens token::create has returned
    decoded,    \* the last call of token::decode and its result, if any
    checkins,   \* the "checkins" collection: a set of Checkin documents
    ckNextId,   \* the next ObjectId the store assigns to a check-in
    wall,       \* date::now(): <<days since the epoch, millisecond of the day>>
    listing,    \* get_user_checkins between its count query and its find query
    ckResp,     \* the last check-in request and its response, if any
    raised,     \* the last two errors turned into responses
    extracted,  \* the last two runs of the identity extractor
    hashed,     \* the last two calls of the password hasher
    orphaned    \* history: accounts whose signup ended after create, tokenless

authVars == <<users, nextId, started, h, origin>>

tokenVars == <<tokens, decoded>>

checkinVars == <<checkins, ckNextId, wall, listing, ckResp>>

auxVars == <<raised, extracted, hashed, orphaned>>

vars ==
    <<users, nextId, started, h, now, origin, tokens, decoded,
      checkins, ckNextId, wall, listing, ckResp,
      raised, extracted, hashed, orphaned>>

\* --------------------------------------------------------------- errors.rs

\* Error variants, with the sub-variant of Authenticate in "sub" and the
\* payload the Display impl prints in "arg".
Err(kind, sub, arg) == [kind |-> kind, sub |-> sub, arg |-> arg]

\* Error::bad_request_with_message
bad_request_with_message(message) == Err("BadRequest", "", message)

\* Error::unauthorized_with_message: the message argument is dropped.
unauthorized_with_message(message) == Err("Authenticate", "WrongCredentials", "")

\* get_codes with InvalidPassword answering the code of WrongCredentials.
get_codes_shared_code(e) ==
    CASE e.kind = "ParseObjectID" -> <<400, 40001>>
      [] e.kind = "BadRequest" -> <<400, 40002>>
      [] e.kind = "NotFound" -> <<404, 40003>>
      [] e.kind = "Authenticate" /\ e.sub = "WrongCredentials" -> <<401, 40004>>
      [] e.kind = "Authenticate" /\ e.sub = "InvalidToken" -> <<401, 40005>>
      [] e.kind = "Authenticate" /\ e.sub = "Locked" -> <<423, 40006>>
      [] e.kind = "TokenCreation" -> <<500, 40007>>
      [] e.kind = "Authenticate" /\ e.sub = "TokenCreation" -> <<500, 5001>>
      [] e.kind = "Wither" -> <<500, 5002>>
      [] e.kind = "Mongo" -> <<500, 5003>>
      [] e.kind = "SerializeMongoResponse" -> <<500, 5004>>
      [] e.kind = "RunSyncTask" -> <<500, 5005>>
      [] e.kind = "HashPassword" -> <<500, 5006>>
      [] e.kind = "InvalidPassword" -> <<401, 40004>>

\* Error::get_codes: (status, code)
get_codes(e) ==
    CASE e.kind = "ParseObjectID" -> <<400, 40001>>
      [] e.kind = "BadRequest" -> <<400, 40002>>
      [] e.kind = "NotFound" -> <<404, 40003>>
      [] e.kind = "Authenticate" /\ e.sub = "WrongCredentials" -> <<401, 40004>>
      [] e.kind = "Authenticate" /\ e.sub = "InvalidToken" -> <<401, 40005>>
      [] e.kind = "Authenticate" /\ e.sub = "Locked" -> <<423, 40006>>
      [] e.kind = "TokenCreation" -> <<500, 40007>>
      [] e.kind = "Authenticate" /\ e.sub = "TokenCreation" -> <<500, 5001>>
      [] e.kind = "Wither" -> <<500, 5002>>
      [] e.kind = "Mongo" -> <<500, 5003>>
      [] e.kind = "SerializeMongoResponse" -> <<500, 5004>>
      [] e.kind = "RunSyncTask" -> <<500, 5005>>
      [] e.kind = "HashPassword" -> <<500, 5006>>
      [] e.kind = "InvalidPassword" -> <<401, 40008>>

\* The thiserror Display of Error and of AuthenticateError, as the parts
\* the format string joins.
to_string(e) ==
    CASE e.kind = "ParseObjectID" -> <<"Error parsing ObjectID ", e.arg>>
      [] e.kind = "InvalidPassword" -> <<"Error invalid password ", e.arg>>
      [] e.kind = "NotFound" -> <<"Not found">>
      [] e.kind = "Authenticate" /\ e.sub = "WrongCredentials" ->
            <<"Wrong authentication credentials">>
      [] e.kind = "Authenticate" /\ e.sub = "TokenCreation" ->
            <<"Failed to create authentication token">>
      [] e.kind = "Authenticate" /\ e.sub = "InvalidToken" ->
            <<"Invalid authentication credentials">>
      [] e.kind = "Authenticate" /\ e.sub = "Locked" -> <<"User is locked">>
      [] OTHER -> <<e.arg>>

\* impl IntoResponse for Error
into_response(e) ==
    [success |-> FALSE,
     status |-> get_codes(e)[1],
     message |-> to_string(e),
     error |-> get_codes(e)[2]]

\* Result<T, E>
OkR(v) == [ok |-> TRUE, val |-> v]

ErrR(e) == [ok |-> FALSE, err |-> e]

\* --------------------------------------------------------- utils/token.rs

\* chrono::Duration::days(1), in seconds
DAY == 86400

\* Validation::default().leeway, in seconds (jsonwebtoken's default)
LEEWAY == 60

\* The ObjectId of a stored document (id is Some after create).
IdOf(doc) == CHOOSE i \in doc.id : TRUE

\* impl From<User> for TokenUser
TokenUser_from(user) ==
    [id |-> IdOf(user),
     first_name |-> user.first_name,
     last_name |-> user.last_name,
     email |-> user.email]

\* Claims::new.  t1 is the clock read of the exp line, t2 the later clock
\* read of the iat line.
Claims_new(user, t1, t2) ==
    [exp |-> t1 + DAY, iat |-> t2, user |-> TokenUser_from(user)]

\* The HS256 signature over header and claims under a key: an ideal MAC,
\* equal exactly when header, claims and key are equal.
Mac(claims, secret) == <<"HS256", claims, secret>>

\* jsonwebtoken::encode(&HEADER, &claims, &key)
encode(claims, secret) ==
    [header |-> "HS256", claims |-> claims, sig |-> Mac(claims, secret)]

\* token::create, given the two clock reads of Claims::new
create(user, secret, t1, t2) == OkR(encode(Claims_new(user, t1, t2), secret))

\* A string that is not header.payload.signature
MalformedToken == [malformed |-> TRUE]

\* decode with the expiry test made on iat instead of exp.
decode_expiry_on_iat(token, secret, t) ==
    IF "claims" \notin DOMAIN token THEN ErrR("InvalidToken")
    ELSE IF token.header # "HS256" THEN ErrR("InvalidAlgorithm")
    ELSE IF token.sig # Mac(token.claims, secret) THEN ErrR("InvalidSignature")
    ELSE IF token.claims.iat < t - LEEWAY THEN ErrR("ExpiredSignature")
    ELSE OkR(token.claims)

\* token::decode at clock t, with VALIDATION = Validation::default():
\* HS256 only, validate_exp, leeway LEEWAY.
decode(token, secret, t) ==
    IF "claims" \notin DOMAIN token THEN ErrR("InvalidToken")
    ELSE IF token.header # "HS256" THEN ErrR("InvalidAlgorithm")
    ELSE IF token.sig # Mac(token.claims, secret) THEN ErrR("InvalidSignature")
    ELSE IF token.claims.exp < t - LEEWAY THEN ErrR("ExpiredSignature")
    ELSE OkR(token.claims)

\* The signing secrets a caller may pass: the server's and another.
Secrets == {"k1", "k2"}

\* The clock values the model visits: the first seconds, the seconds
\* around one day, and the seconds around one day plus the leeway.
Instants ==
    {0, 1, 2} \cup {DAY + k : k \in -1..2} \cup {DAY + LEEWAY + k : k \in -1..3}

\* --------------------------------------------------------- models/user.rs

\* The prefix of a bcrypt hash string
BcryptPrefix == "$2b$"

\* The salts bcrypt::hash may draw
Salts == {"saltA", "saltB"}

\* bcrypt::hash with the drawn salt: prefix, salt, digest.  The digest is
\* ideal: it determines the password and nothing else produces it.
BcryptHash(password, salt) == <<BcryptPrefix, salt>> \o password

\* bcrypt::verify: Err on a string that is no bcrypt hash, else whether
\* the digest is the password's.
BcryptVerify(password, hash) ==
    IF Len(hash) < 2 \/ hash[1] # BcryptPrefix \/ hash[2] \notin Salts
    THEN ErrR("InvalidHash")
    ELSE OkR(hash = BcryptHash(password, hash[2]))

\* Mutant: the password is passed through unhashed.
hash_password_plain(password, salt) == OkR(password)

\* user::hash_password, the blocking task having run
hash_password(password, salt) == OkR(BcryptHash(password, salt))

\* verify_password with the error of bcrypt::verify replaced by false, as
\* unwrap_or(false) does.
verify_password_or_false(password, hash) ==
    LET r == BcryptVerify(password, hash)
    IN  IF r.ok THEN OkR(r.val) ELSE OkR(FALSE)

\* user::verify_password, the blocking task having run
verify_password(password, hash) ==
    LET r == BcryptVerify(password, hash)
    IN  IF r.ok THEN OkR(r.val)
        ELSE ErrR(Err("InvalidPassword", "", "Invalid password"))

\* User::new
User_new(first_name, last_name, email, password_hash) ==
    [id |-> {},
     first_name |-> first_name,
     last_name |-> last_name,
     email |-> email,
     password |-> password_hash,
     locked_at |-> {}]

\* Mutant: the index on email is declared without "unique".
UserIndexNotUnique == FALSE

\* #[model(index(keys = { "email": 1 }, options = { "unique": true }))]
UserIndexUnique == TRUE

\* ------------------------------------------- ModelExt (utils/models.rs)

\* ModelExt::find_one(doc! { "email": email }): the first match in the
\* store's natural (insertion) order, or None.
find_one(coll, email) ==
    LET m == {u \in coll : u.email = email}
    IN  IF m = {} THEN {}
        ELSE {CHOOSE u \in m : \A v \in m : IdOf(u) <= IdOf(v)}

\* ModelExt::create on the users collection: a store failure when the
\* unique index on email rejects the insert, else the document with its id.
User_create(coll, doc, id) ==
    IF UserIndexUnique /\ \E u \in coll : u.email = doc.email
    THEN ErrR(Err("Wither", "", "E11000 duplicate key error"))
    ELSE OkR([doc EXCEPT !.id = {id}])

\* --------------------------------------------------------- routes/auth.rs

\* SETTINGS.auth.secret
ServerSecret == "k1"

\* #[validate(length(min = 8))] on SignupRequest.password
MinPasswordLen == 8

\* The tasks the runtime interleaves: two requests in flight at once.
Handlers == {"h1", "h2"}

Pw7 == <<"p", "a", "s", "s", "w", "o", "r">>

Pw9 == <<"p", "a", "s", "s", "w", "o", "r", "d", "1">>

Emails == {"a@b.com", "c@d.com"}

Passwords == {Pw7, Pw9}

\* (firstName, lastName) of a signup body
Names == {<<"A", "B">>, <<"", "B">>, <<"A", "">>}

\* The bodies Json<SignupRequest> deserialises
SignupRequests ==
    {[email |-> e, password |-> p, first_name |-> n[1], last_name |-> n[2]] :
        e \in Emails, p \in Passwords, n \in Names}

\* The bodies Json<SigninRequest> deserialises
SigninRequests == [email : Emails, password : Passwords]

\* A handler slot with no request in it.  held and cause are history
\* variables: whether the email was in the store when the request
\* arrived, and which branch produced the response.
Idle ==
    [pc |-> "idle", op |-> "", req |-> {}, held |-> FALSE, password_hash |-> {},
     user |-> {}, resp |-> {}, cause |-> ""]

Payload(r) == CHOOSE p \in h[r].req : TRUE

\* The handler returns: its locals are dropped, the response is kept.
Return(r, resp, cause) ==
    [h[r] EXCEPT !.pc = "done", !.password_hash = {},
                 !.resp = {resp}, !.cause = cause]

\* signup is called with a deserialised body (auth.rs:89)
StartSignup(r, payload) ==
    /\ h[r].pc = "idle"
    /\ started < MaxRequests
    /\ started' = started + 1
    /\ h' = [h EXCEPT ![r] =
                [Idle EXCEPT !.pc = "signup_find", !.op = "signup", !.req = {payload},
                             !.held = (find_one(users, payload.email) # {})]]
    /\ UNCHANGED <<users, nextId, now, origin, tokenVars, checkinVars, auxVars>>

\* Mutant: the existence check never fires.
existing_user_is_some_never(existing_user) == FALSE

\* existing_user.is_some() (auth.rs:92)
existing_user_is_some(existing_user) == existing_user # {}

\* auth.rs:91-94: the existence check and its early return
SignupFindOne(r) ==
    /\ h[r].pc = "signup_find"
    /\ LET existing_user == find_one(users, Payload(r).email)
       IN  IF existing_user_is_some(existing_user)
           THEN h' = [h EXCEPT ![r] = Return(r,
                        into_response(bad_request_with_message(
                            "Email already registered")), "exists")]
           ELSE h' = [h EXCEPT ![r].pc = "signup_hash"]
    /\ UNCHANGED <<users, nextId, started, now, origin, tokenVars, checkinVars, auxVars>>

\* auth.rs:97-98: the password is hashed on the blocking pool
SignupHash(r) ==
    /\ h[r].pc = "signup_hash"
    /\ \E salt \in Salts :
          LET password_hash == hash_password(Payload(r).password, salt)
          IN  h' = [h EXCEPT ![r].pc = "signup_create",
                             ![r].password_hash = {password_hash.val}]
    /\ UNCHANGED <<users, nextId, started, now, origin, tokenVars, checkinVars, auxVars>>

\* auth.rs:101-109: User::new, then User::create with `?`
SignupCreate(r) ==
    /\ h[r].pc = "signup_create"
    /\ LET req == Payload(r)
           user == User_new(req.first_name, req.last_name, req.email,
                            CHOOSE x \in h[r].password_hash : TRUE)
           res == User_create(users, user, nextId)
       IN  IF res.ok
           THEN /\ users' = users \cup {res.val}
                /\ nextId' = nextId + 1
                /\ origin' = origin @@ (nextId :> req)
                /\ h' = [h EXCEPT ![r].pc = "signup_token",
                                  ![r].password_hash = {},
                                  ![r].user = {res.val}]
           ELSE /\ h' = [h EXCEPT ![r] =
                            Return(r, into_response(res.err), "create_failed")]
                /\ UNCHANGED <<users, nextId, origin>>
    /\ UNCHANGED <<started, now, tokenVars, checkinVars, auxVars>>

\* auth.rs:110-133: PublicUser::from, token::create, the response
SignupToken(r) ==
    /\ h[r].pc = "signup_token"
    /\ LET user == CHOOSE u \in h[r].user : TRUE
           token == create(user, ServerSecret, now, now)
       IN  h' = [h EXCEPT ![r] = Return(r,
                    [success |-> TRUE,
                     status |-> 200,
                     message |-> <<"User registered successfully">>,
                     data |-> [user_id |-> IdOf(user),
                               email |-> user.email,
                               first_name |-> user.first_name,
                               last_name |-> user.last_name,
                               token |-> token.val]], "ok")]
    /\ UNCHANGED <<users, nextId, started, now, origin, tokenVars, checkinVars, auxVars>>

\* signin is called with a deserialised body (auth.rs:137)
StartSignin(r, payload) ==
    /\ h[r].pc = "idle"
    /\ started < MaxRequests
    /\ started' = started + 1
    /\ h' = [h EXCEPT ![r] =
                [Idle EXCEPT !.pc = "signin_find", !.op = "signin", !.req = {payload},
                             !.held = (find_one(users, payload.email) # {})]]
    /\ UNCHANGED <<users, nextId, now, origin, tokenVars, checkinVars, auxVars>>

\* Mutant: an unknown email is reported as a missing resource.
unknown_email_not_found == Err("NotFound", "", "")

\* The error of the ok_or_else at auth.rs:140
unknown_email_error == unauthorized_with_message("Invalid email or password")

\* The error returned at auth.rs:145
wrong_password_error == unauthorized_with_message("Invalid email or password")

\* auth.rs:139-140: find the user by email, or fail
SigninFindOne(r) ==
    /\ h[r].pc = "signin_find"
    /\ LET found == find_one(users, Payload(r).email)
       IN  IF found = {}
           THEN h' = [h EXCEPT ![r] = Return(r,
                        into_response(unknown_email_error), "unknown_email")]
           ELSE h' = [h EXCEPT ![r].pc = "signin_verify", ![r].user = found]
    /\ UNCHANGED <<users, nextId, started, now, origin, tokenVars, checkinVars, auxVars>>

\* auth.rs:143-146: verify_password with `?`, then the mismatch return
SigninVerify(r) ==
    /\ h[r].pc = "signin_verify"
    /\ LET user == CHOOSE u \in h[r].user : TRUE
           is_valid == verify_password(Payload(r).password, user.password)
       IN  IF ~is_valid.ok
           THEN h' = [h EXCEPT ![r] =
                        Return(r, into_response(is_valid.err), "verify_failed")]
           ELSE IF ~is_valid.val
           THEN h' = [h EXCEPT ![r] = Return(r,
                        into_response(wrong_password_error), "wrong_password")]
           ELSE h' = [h EXCEPT ![r].pc = "signin_token"]
    /\ UNCHANGED <<users, nextId, started, now, origin, tokenVars, checkinVars, auxVars>>

\* auth.rs:149-167: token::create, PublicUser::from, the response
SigninToken(r) ==
    /\ h[r].pc = "signin_token"
    /\ LET user == CHOOSE u \in h[r].user : TRUE
           token == create(user, ServerSecret, now, now)
       IN  h' = [h EXCEPT ![r] = Return(r,
                    [success |-> TRUE,
                     status |-> 200,
                     message |-> <<"User signed in successfully">>,
                     data |-> [user_id |-> IdOf(user),
                               email |-> user.email,
                               first_name |-> user.first_name,
                               last_name |-> user.last_name,
                               token |-> token.val]], "ok")]
    /\ UNCHANGED <<users, nextId, started, now, origin, tokenVars, checkinVars, auxVars>>

\* The response has been sent; the task ends and the slot is free again.
Finish(r) ==
    /\ h[r].pc = "done"
    /\ h' = [h EXCEPT ![r] = Idle]
    /\ UNCHANGED <<users, nextId, started, now, origin, tokenVars, checkinVars, auxVars>>

\* The date of a timestamp <<days since 1970-01-01, millisecond of the day>>
\* is its first component; timestamps are ordered lexicographically.
TsLess(a, b) == a[1] < b[1] \/ (a[1] = b[1] /\ a[2] < b[2])

\* Days from 1970-01-01 to the proleptic Gregorian date y-m-d, as
\* NaiveDate counts them.
DaysFromCivil(y, m, d) ==
    LET yy == IF m <= 2 THEN y - 1 ELSE y
        era == yy \div 400
        yoe == yy - era * 400
        mp == (m + 9) % 12
        doy == (153 * mp + 2) \div 5 + d - 1
        doe == yoe * 365 + yoe \div 4 - yoe \div 100 + doy
    IN  era * 146097 + doe - 719468

\* The instants date::now() returns in the model: the last millisecond of
\* 2024, the first and the last millisecond of January 2025, and the first
\* millisecond of February 2025.
WallInstants ==
    <<  <<DaysFromCivil(2024, 12, 31), 86399999>>,
        <<DaysFromCivil(2025, 1, 1), 0>>,
        <<DaysFromCivil(2025, 1, 31), 86399999>>,
        <<DaysFromCivil(2025, 2, 1), 0>>  >>

\* The stores are empty and no request is in flight.
Init ==
    /\ users = {}
    /\ nextId = 1
    /\ started = 0
    /\ h = [r \in Handlers |-> Idle]
    /\ now = 0
    /\ origin = <<>>
    /\ tokens = {}
    /\ decoded = {}
    /\ checkins = {}
    /\ ckNextId = 1
    /\ wall = WallInstants[1]
    /\ listing = {}
    /\ ckResp = {}
    /\ raised = <<>>
    /\ extracted = <<>>
    /\ hashed = <<>>
    /\ orphaned = {}

\* Time stands still in this specification: no handler of routes/auth.rs
\* depends on it.
NextAuth ==
    \/ \E r \in Handlers : \E p \in SignupRequests : StartSignup(r, p)
    \/ \E r \in Handlers : SignupFindOne(r)
    \/ \E r \in Handlers : SignupHash(r)
    \/ \E r \in Handlers : SignupCreate(r)
    \/ \E r \in Handlers : SignupToken(r)
    \/ \E r \in Handlers : \E p \in SigninRequests : StartSignin(r, p)
    \/ \E r \in Handlers : SigninFindOne(r)
    \/ \E r \in Handlers : SigninVerify(r)
    \/ \E r \in Handlers : SigninToken(r)
    \/ \E r \in Handlers : Finish(r)

SpecAuth == Init /\ [][NextAuth]_vars

\* ------------------------------------------------ the token service alone

\* A stored account, as signup leaves it.
SampleUser ==
    User_create({}, User_new("A", "B", "a@b.com", BcryptHash(Pw9, "saltA")), 1).val

\* Time passes.
Tick ==
    /\ \E t \in Instants : t > now /\ now' = t
    /\ decoded' = {}
    /\ UNCHANGED <<authVars, tokens, checkinVars, auxVars>>

\* token::create(user, secret): Claims::new reads the clock at the exp
\* line and again at the iat line; the clock may advance in between.
IssueToken(user, secret) ==
    /\ Cardinality(tokens) < MaxTokens
    /\ \E t2 \in Instants :
          /\ now <= t2 /\ t2 - now <= MaxSkew
          /\ tokens' = tokens \cup {create(user, secret, now, t2).val}
          /\ now' = t2
    /\ decoded' = {}
    /\ UNCHANGED <<authVars, checkinVars, auxVars>>

\* token::decode(token, secret) at the current clock
DecodeToken(token, secret) ==
    /\ decoded' = {[token |-> token, secret |-> secret, at |-> now,
                    result |-> decode(token, secret, now)]}
    /\ UNCHANGED <<authVars, tokens, now, checkinVars, auxVars>>

NextToken ==
    \/ Tick
    \/ \E k \in Secrets : IssueToken(SampleUser, k)
    \/ \E t \in tokens \cup {MalformedToken} : \E k \in Secrets : DecodeToken(t, k)

SpecToken == Init /\ [][NextToken]_vars

\* ---------------------------------------------- claims on utils/token.rs

\* C5 (as claimed): a token issued at instant T (its iat) and decoded with
\* the secret it was signed with verifies at every t with T <= t < T + DAY
\* and fails at every t >= T + DAY.
C5_StrictDayExpiry ==
    \A d \in decoded :
        (d.token \in tokens /\ d.token.sig = Mac(d.token.claims, d.secret)) =>
            (d.result.ok <=> d.at < d.token.claims.iat + DAY)

\* C6 (as claimed): every Claims value of an issued token has
\* exp = iat + DAY.
C6_ExpIsIatPlusDay ==
    \A t \in tokens : t.claims.exp = t.claims.iat + DAY

\* ------------------------------------------------- claims on routes/auth.rs

\* The response of the "Email already registered" early return.
EmailRegisteredResponse ==
    [success |-> FALSE, status |-> 400,
     message |-> <<"Email already registered">>, error |-> 40002]

Response(r) == CHOOSE x \in h[r].resp : TRUE

\* C1: a signup whose email was held by an account when the request
\* arrived never gets past the existence check: it hashes nothing, creates
\* no account, and its response is BadRequest (400, code 40002, "Email
\* already registered"), whatever password and names it carries.
C1_SignupExistingEmailRejected ==
    \A r \in Handlers :
        (h[r].op = "signup" /\ h[r].held) =>
            /\ h[r].pc \in {"signup_find", "done"}
            /\ h[r].password_hash = {}
            /\ h[r].user = {}
            /\ h[r].pc = "done" => Response(r) = EmailRegisteredResponse

\* C1 witness: a signup for a held email, with another password and
\* another first name than the account's, has been answered.
C1_Witness ==
    \E r \in Handlers : \E u \in users :
        /\ h[r].op = "signup" /\ h[r].held /\ h[r].pc = "done"
        /\ u.email = Payload(r).email
        /\ origin[IdOf(u)].password # Payload(r).password
        /\ u.first_name # Payload(r).first_name

\* C2: no two persisted accounts have the same email.
C2_EmailUnique ==
    \A u \in users : \A v \in users : u.email = v.email => u = v

\* C2 witness: two signups for one email both passed the existence check;
\* one created the account and the other's create was refused.
C2_Witness ==
    \E r \in Handlers : \E q \in Handlers :
        /\ r # q
        /\ h[r].op = "signup" /\ h[r].user # {}
        /\ h[q].op = "signup" /\ h[q].cause = "create_failed"
        /\ Payload(r).email = Payload(q).email

\* C3 (as claimed): a signup whose User::create is refused by the unique
\* index answers with the same BadRequest as the existence check, not with
\* a 5xx store failure.
C3_CreateConflictTranslated ==
    \A r \in Handlers :
        h[r].cause = "create_failed" =>
            /\ Response(r).status = 400
            /\ Response(r).error = 40002

\* C4: the password field of every persisted account differs from the
\* plaintext of the signup that created it and verifies against it, and
\* every signin that arrives once the account exists, with the account's
\* email and that plaintext, is answered with success and a token.
C4_HashedAndSigninSucceeds ==
    /\ \A u \in users :
            /\ u.password # origin[IdOf(u)].password
            /\ verify_password(origin[IdOf(u)].password, u.password) = OkR(TRUE)
    /\ \A r \in Handlers :
            (/\ h[r].op = "signin" /\ h[r].held /\ h[r].pc = "done"
             /\ \E u \in users : /\ u.email = Payload(r).email
                                 /\ origin[IdOf(u)].password = Payload(r).password)
            => /\ Response(r).success
               /\ Response(r).status = 200
               /\ "claims" \in DOMAIN Response(r).data.token
               /\ Response(r).data.email = Payload(r).email

\* C4 witness: such a signin has been answered.
C4_Witness ==
    \E r \in Handlers : \E u \in users :
        /\ h[r].op = "signin" /\ h[r].held /\ h[r].pc = "done"
        /\ u.email = Payload(r).email
        /\ origin[IdOf(u)].password = Payload(r).password
        /\ Response(r).success

\* C7: a signin refused because no account has the email and a signin
\* refused because the password does not match get the same response:
\* status, code and message.
C7_SigninFailuresIndistinguishable ==
    \A r \in Handlers : \A q \in Handlers :
        (h[r].cause = "unknown_email" /\ h[q].cause = "wrong_password") =>
            Response(r) = Response(q)

\* C7 witness: both refusals are on the table at once.
C7_Witness ==
    \E r \in Handlers : \E q \in Handlers :
        /\ h[r].op = "signin" /\ h[r].cause = "unknown_email"
        /\ h[q].op = "signin" /\ h[q].cause = "wrong_password"

\* C9 (as claimed): no persisted account comes from a signup whose
\* password has fewer than MinPasswordLen characters.
C9_NoShortPasswordAccount ==
    \A u \in users : Len(origin[IdOf(u)].password) >= MinPasswordLen

\* ------------------------------------------------------ models/checkin.rs

\* valid_emotions()
valid_emotions == {"joy", "sadness", "anger", "fear", "disgust", "surprise"}

\* Checkin::new given the owner a body names, when it names one.
Checkin_new_client_owner(user, payload, t) ==
    [id |-> {},
     user |-> IF "user" \in DOMAIN payload THEN payload.user ELSE user,
     mood_rating |-> payload.mood_rating,
     primary_emotion |-> payload.primary_emotion,
     intensity |-> payload.intensity,
     energy_level |-> payload.energy_level,
     stress_level |-> payload.stress_level,
     wellbeing |-> payload.wellbeing,
     notes |-> payload.notes,
     updated_at |-> t,
     created_at |-> t]

\* Checkin::new: user, the payload's fields, both timestamps date::now()
Checkin_new(user, payload, t) ==
    [id |-> {},
     user |-> user,
     mood_rating |-> payload.mood_rating,
     primary_emotion |-> payload.primary_emotion,
     intensity |-> payload.intensity,
     energy_level |-> payload.energy_level,
     stress_level |-> payload.stress_level,
     wellbeing |-> payload.wellbeing,
     notes |-> payload.notes,
     updated_at |-> t,
     created_at |-> t]

\* impl From<Checkin> for PublicCheckin
PublicCheckin_from(checkin) == [checkin EXCEPT !.id = IdOf(checkin)]

\* ------------------------------------------- ModelExt (utils/models.rs)

\* ModelExt::create on the checkins collection: the document with its id.
Checkin_create(doc, id) == OkR([doc EXCEPT !.id = {id}])

\* The documents a query selects: the owner, and created_at in
\* [$gte, $lt) when the query holds a range.
Matches(coll, query) ==
    {c \in coll :
        /\ c.user = query.user
        /\ \A rg \in query.created_at :
              ~TsLess(c.created_at, rg[1]) /\ TsLess(c.created_at, rg[2])}

\* The orders a sort by created_at descending may give a set of documents:
\* documents with equal created_at come in any order.
SortedNewestFirst(S) ==
    {sq \in [1..Cardinality(S) -> S] :
        /\ \A i \in DOMAIN sq : \A j \in DOMAIN sq : i # j => sq[i] # sq[j]
        /\ \A i \in DOMAIN sq : \A j \in DOMAIN sq :
              i < j => ~TsLess(sq[i].created_at, sq[j].created_at)}

\* skip(offset) and limit(limit) of a sorted result
Window(sq, offset, limit) ==
    SubSeq(sq, offset + 1, IF offset + limit < Len(sq) THEN offset + limit ELSE Len(sq))

\* ------------------------------------------------------ routes/checkin.rs

\* #[validate(range(min = 1, max = 5))]
RatingMin == 1

RatingMax == 5

\* Mutant: the range has no lower end.
rating_in_range_no_min(v) == v <= RatingMax

\* One #[validate(range(min = 1, max = 5))] check
rating_in_range(v) == v >= RatingMin /\ v <= RatingMax

RatingFields ==
    {"mood_rating", "intensity", "energy_level", "stress_level", "wellbeing"}

\* payload.validate(): the fields whose range check fails
validate(payload) == {f \in RatingFields : ~rating_in_range(payload[f])}

\* The identities the extractor hands to the handlers.
Identities == {1, 2}

\* A request with every rating at the lower end of the range.
BaseCheckin ==
    [mood_rating |-> 1, primary_emotion |-> "joy", intensity |-> 1,
     energy_level |-> 1, stress_level |-> 1, wellbeing |-> 1, notes |-> {}]

\* A request with every rating at the upper end of the range, and a note.
TopCheckin ==
    [mood_rating |-> 5, primary_emotion |-> "surprise", intensity |-> 5,
     energy_level |-> 5, stress_level |-> 5, wellbeing |-> 5,
     notes |-> {"slept well"}]

\* The bodies Json<CreateCheckinRequest> deserialises in the model: the
\* two requests above, and the base request with one rating (a u8) out of
\* range or with a label that is no emotion.
CreateCheckinRequests ==
    {BaseCheckin, TopCheckin}
    \cup {[BaseCheckin EXCEPT ![f] = v] : f \in RatingFields, v \in {0, 6, 255}}
    \cup {[BaseCheckin EXCEPT !.primary_emotion = e] : e \in {"bored", "Joy", ""}}

\* create_checkin (checkin.rs:44-76)
CreateCheckin(user, payload) ==
    /\ Cardinality(checkins) < MaxCheckins
    /\ LET invalid == validate(payload)
           checkin == Checkin_new(user, payload, wall)
           res == Checkin_create(checkin, ckNextId)
       IN  IF invalid # {}
           THEN /\ ckResp' = {[op |-> "create", user |-> user, req |-> payload,
                               before |-> checkins,
                               resp |-> into_response(bad_request_with_message(
                                            <<"Validation error: ", invalid>>))]}
                /\ UNCHANGED <<checkins, ckNextId>>
           ELSE IF payload.primary_emotion \notin valid_emotions
           THEN /\ ckResp' = {[op |-> "create", user |-> user, req |-> payload,
                               before |-> checkins,
                               resp |-> into_response(bad_request_with_message(
                                            "Invalid primary emotion"))]}
                /\ UNCHANGED <<checkins, ckNextId>>
           ELSE /\ checkins' = checkins \cup {res.val}
                /\ ckNextId' = ckNextId + 1
                /\ ckResp' = {[op |-> "create", user |-> user, req |-> payload,
                               before |-> checkins,
                               resp |-> [success |-> TRUE, status |-> 201,
                                         body |-> PublicCheckin_from(res.val)]]}
    /\ UNCHANGED <<authVars, now, tokenVars, auxVars, wall, listing>>

\* chrono::NaiveDate::MIN and MAX, as years
MinYear == -262143

MaxYear == 262142

\* NaiveDate::from_ymd_opt(year, month, 1), as days since the epoch
from_ymd_opt_first(year, month) ==
    IF year >= MinYear /\ year <= MaxYear /\ month >= 1 /\ month <= 12
    THEN {DaysFromCivil(year, month, 1)}
    ELSE {}

\* ListQuery with the end of the range left in the year of its start.
ListQuery_end_in_same_year(user, month, year) ==
    IF month # {} /\ year # {}
    THEN LET m == CHOOSE x \in month : TRUE
             y == CHOOSE x \in year : TRUE
             end_month == IF m = 12 THEN 1 ELSE m + 1
             end_year == y
             start_date == from_ymd_opt_first(y, m)
             end_date == from_ymd_opt_first(end_year, end_month)
         IN  IF m < 1 \/ m > 12
             THEN ErrR(bad_request_with_message("Month must be between 1 and 12"))
             ELSE IF start_date = {} \/ end_date = {}
             THEN ErrR(bad_request_with_message("Invalid date"))
             ELSE OkR([user |-> user,
                       created_at |->
                           {<< <<CHOOSE d \in start_date : TRUE, 0>>,
                               <<CHOOSE d \in end_date : TRUE, 0>> >>}])
    ELSE OkR([user |-> user, created_at |-> {}])

\* get_user_checkins up to the query (checkin.rs:89-122): an error, or the
\* query document.  month and year are Options.
ListQuery(user, month, year) ==
    IF month # {} /\ year # {}
    THEN LET m == CHOOSE x \in month : TRUE
             y == CHOOSE x \in year : TRUE
             end_month == IF m = 12 THEN 1 ELSE m + 1
             end_year == IF m = 12 THEN y + 1 ELSE y
             start_date == from_ymd_opt_first(y, m)
             end_date == from_ymd_opt_first(end_year, end_month)
         IN  IF m < 1 \/ m > 12
             THEN ErrR(bad_request_with_message("Month must be between 1 and 12"))
             ELSE IF start_date = {} \/ end_date = {}
             THEN ErrR(bad_request_with_message("Invalid date"))
             ELSE OkR([user |-> user,
                       created_at |->
                           {<< <<CHOOSE d \in start_date : TRUE, 0>>,
                               <<CHOOSE d \in end_date : TRUE, 0>> >>}])
    ELSE OkR([user |-> user, created_at |-> {}])

\* The query strings of GET /api/checkin in the model: (month, year).
MonthYears ==
    {<<{}, {}>>, <<{13}, {}>>, <<{}, {2025}>>, <<{1}, {2025}>>,
     <<{12}, {2024}>>, <<{0}, {2025}>>, <<{13}, {2025}>>}

\* The Pagination values the extractor hands to the handler: (offset, limit).
Paginations == {<<0, 2>>, <<0, 1>>, <<1, 1>>, <<2, 1>>}

\* FindOptions without the skip.
find_options_no_skip(offset, limit) ==
    [sort |-> <<"created_at", -1>>, skip |-> 0, limit |-> limit]

\* FindOptions::builder().sort(created_at: -1).skip(offset).limit(limit)
find_options(offset, limit) ==
    [sort |-> <<"created_at", -1>>, skip |-> offset, limit |-> limit]

\* get_user_checkins up to the count query of find_and_count
\* (checkin.rs:84-132): an early error response, or the count is taken.
ListCount(user, month, year, pagination) ==
    /\ listing = {}
    /\ LET q == ListQuery(user, month, year)
           rq == [user |-> user, month |-> month, year |-> year,
                  offset |-> pagination[1], limit |-> pagination[2]]
       IN  IF ~q.ok
           THEN /\ ckResp' = {[op |-> "list", user |-> user, req |-> rq,
                               before |-> checkins,
                               resp |-> into_response(q.err)]}
                /\ UNCHANGED listing
           ELSE /\ listing' = {[req |-> rq, query |-> q.val, store |-> checkins,
                                count |-> Cardinality(Matches(checkins, q.val))]}
                /\ ckResp' = {}
    /\ UNCHANGED <<authVars, now, tokenVars, auxVars, checkins, ckNextId, wall>>

\* get_user_checkins from the find query on (checkin.rs:132-148)
ListFind ==
    /\ listing # {}
    /\ LET l == CHOOSE x \in listing : TRUE
       IN  \E sq \in SortedNewestFirst(Matches(checkins, l.query)) :
              LET options == find_options(l.req.offset, l.req.limit)
                  page == Window(sq, options.skip, options.limit)
              IN  ckResp' = {[op |-> "list", user |-> l.req.user, req |-> l.req,
                              before |-> checkins, counted |-> l.store,
                              resp |-> [success |-> TRUE, status |-> 200,
                                        body |-> [i \in DOMAIN page |->
                                                    PublicCheckin_from(page[i])],
                                        pagination |->
                                            [count |-> l.count,
                                             offset |-> l.req.offset,
                                             limit |-> l.req.limit]]]}
    /\ listing' = {}
    /\ UNCHANGED <<authVars, now, tokenVars, auxVars, checkins, ckNextId, wall>>

\* Time passes.
WallTick ==
    /\ \E i \in DOMAIN WallInstants :
          TsLess(wall, WallInstants[i]) /\ wall' = WallInstants[i]
    /\ ckResp' = {}
    /\ UNCHANGED <<authVars, now, tokenVars, auxVars, checkins, ckNextId, listing>>

\* Check-ins are created, with valid and invalid bodies.
NextCheckin ==
    \/ \E u \in Identities : \E p \in CreateCheckinRequests : CreateCheckin(u, p)
    \/ WallTick

SpecCheckin == Init /\ [][NextCheckin]_vars

\* Check-ins are created and listed.
NextList ==
    \/ \E u \in Identities : CreateCheckin(u, BaseCheckin)
    \/ \E u \in Identities : \E my \in MonthYears : \E pg \in Paginations :
          ListCount(u, my[1], my[2], pg)
    \/ ListFind
    \/ WallTick

SpecList == Init /\ [][NextList]_vars

\* ------------------------------------------- claims on routes/checkin.rs

\* A create-check-in body the validation must refuse.
InvalidCheckin(payload) ==
    \/ \E f \in RatingFields : payload[f] < 1 \/ payload[f] > 5
    \/ payload.primary_emotion \notin
          {"joy", "sadness", "anger", "fear", "disgust", "surprise"}

\* C8: a create-check-in whose body has a rating outside [1,5] or an
\* emotion outside the fixed set is answered with BadRequest (400, code
\* 40002) and leaves the collection as it was; and every persisted check-in
\* has its five ratings in [1,5] and its emotion in the fixed set.
C8_InvalidCheckinRejected ==
    /\ \A r \in ckResp :
          (r.op = "create" /\ InvalidCheckin(r.req)) =>
              /\ ~r.resp.success
              /\ r.resp.status = 400
              /\ r.resp.error = 40002
              /\ checkins = r.before
    /\ \A c \in checkins : ~InvalidCheckin(c)

\* C8 witness: a body with a rating of 0 has been refused while a check-in
\* is persisted.
C8_Witness ==
    \E r \in ckResp :
        /\ r.op = "create" /\ r.req.stress_level = 0
        /\ ~r.resp.success
        /\ checkins # {}

\* C10 (as claimed): list-check-ins answers BadRequest to every request
\* whose month is outside 1..12, with or without a year.
C10_MonthOutOfRangeRejected ==
    \A r \in ckResp :
        (r.op = "list" /\ \E m \in r.req.month : m < 1 \/ m > 12) =>
            (~r.resp.success /\ r.resp.status = 400)

\* A successful answer of list-check-ins whose count query and find query
\* saw the same collection: no write came between the two.
QuietList(r) ==
    /\ r.op = "list"
    /\ r.resp.success
    /\ r.counted = r.before

\* The documents the filter of a list request matches in a collection.
Matched(r, coll) ==
    Matches(coll, ListQuery(r.req.user, r.req.month, r.req.year).val)

\* C11: with no write between the two queries, the count is the number M of
\* matching documents whatever the offset o and the limit L, the page holds
\* min(L, max(M - o, 0)) distinct matching documents, its i-th document
\* stands at position o + i of the matches sorted newest-first (at most
\* o + i - 1 matches are strictly newer and at least o + i are as new or
\* newer), and the pagination block echoes o and L.
C11_PageIsWindowOfSortedMatches ==
    \A r \in ckResp : QuietList(r) =>
        LET M == Matched(r, r.before)
            o == r.req.offset
            L == r.req.limit
            body == r.resp.body
            rest == IF Cardinality(M) > o THEN Cardinality(M) - o ELSE 0
        IN  /\ r.resp.pagination.count = Cardinality(M)
            /\ r.resp.pagination.offset = o
            /\ r.resp.pagination.limit = L
            /\ Len(body) = IF L < rest THEN L ELSE rest
            /\ \A i \in DOMAIN body :
                  /\ \E c \in M : body[i] = PublicCheckin_from(c)
                  /\ \A j \in DOMAIN body : i # j => body[i] # body[j]
                  /\ Cardinality({c \in M :
                        TsLess(body[i].created_at, c.created_at)}) <= o + i - 1
                  /\ Cardinality({c \in M :
                        ~TsLess(c.created_at, body[i].created_at)}) >= o + i

\* C11 witness: a page that starts after the newest of two matching
\* documents of different ages and holds the older one.
C11_Witness ==
    \E r \in ckResp :
        /\ QuietList(r)
        /\ r.req.offset = 1 /\ r.req.limit = 1
        /\ Cardinality(Matched(r, r.before)) = 2
        /\ Len(r.resp.body) = 1
        /\ \E c \in Matched(r, r.before) :
              TsLess(r.resp.body[1].created_at, c.created_at)

\* ------------------------------------------------ errors.rs as responses

\* The variants of Error that carry no AuthenticateError.
PlainKinds ==
    {"Wither", "Mongo", "ParseObjectID", "SerializeMongoResponse",
     "BadRequest", "NotFound", "RunSyncTask", "HashPassword",
     "TokenCreation", "InvalidPassword"}

\* The variants of AuthenticateError.
AuthenticateKinds == {"WrongCredentials", "TokenCreation", "InvalidToken", "Locked"}

\* The payloads an Error carries in the model.
ErrorArgs == {"first cause", "second cause"}

\* Every Error value of the model.
Errors ==
    {Err(k, "", a) : k \in PlainKinds, a \in ErrorArgs}
    \cup {Err("Authenticate", sub, a) : sub \in AuthenticateKinds, a \in ErrorArgs}

\* A handler returns Err(e): axum turns it into a response.  The last two
\* are kept.
Raise(e) ==
    /\ raised' = IF raised = <<>>
                 THEN << [err |-> e, resp |-> into_response(e)] >>
                 ELSE << raised[Len(raised)], [err |-> e, resp |-> into_response(e)] >>
    /\ UNCHANGED <<authVars, now, tokenVars, checkinVars,
                   extracted, hashed, orphaned>>

NextErrors == \E e \in Errors : Raise(e)

SpecErrors == Init /\ [][NextErrors]_vars

\* The failure kind of an Error: its variant, and the AuthenticateError
\* sub-variant when it has one.
FailureKind(e) == <<e.kind, e.sub>>

\* C12: every error response has success = false; two errors of different
\* failure kinds get different numeric codes; two errors of the same kind
\* get the same code and the same HTTP status, whatever their payloads.
C12_CodesInjective ==
    /\ \A i \in DOMAIN raised : raised[i].resp.success = FALSE
    /\ \A i \in DOMAIN raised : \A j \in DOMAIN raised :
          IF FailureKind(raised[i].err) = FailureKind(raised[j].err)
          THEN /\ raised[i].resp.error = raised[j].resp.error
               /\ raised[i].resp.status = raised[j].resp.status
          ELSE raised[i].resp.error # raised[j].resp.error

\* C12 witness: InvalidPassword and Authenticate(WrongCredentials), both
\* answered 401, have been raised one after the other.
C12_Witness ==
    /\ Len(raised) = 2
    /\ raised[1].err.kind = "InvalidPassword"
    /\ FailureKind(raised[2].err) = <<"Authenticate", "WrongCredentials">>
    /\ raised[1].resp.status = 401 /\ raised[2].resp.status = 401

\* ------------------------------------- the identity extractor (TokenUser)

\* The extractor of TokenUser on a protected route: the Authorization
\* header (an Option) must be "Bearer <token>" and the token must decode
\* under the server's secret; the identity is the user of the claims.
\* Every failure is Authenticate(InvalidToken).
authenticate(header, secret, t) ==
    IF header = {} THEN ErrR(Err("Authenticate", "InvalidToken", ""))
    ELSE LET hd == CHOOSE x \in header : TRUE
             res == decode(hd.token, secret, t)
         IN  IF hd.scheme # "Bearer" \/ ~res.ok
             THEN ErrR(Err("Authenticate", "InvalidToken", ""))
             ELSE OkR(res.val.user)

\* The Authorization headers a client may send: none, a token the server
\* issued, the same claims signed with another secret, a string that is no
\* token, and an issued token under another scheme.
Headers ==
    {{}}
    \cup {{[scheme |-> "Bearer", token |-> t]} : t \in tokens \cup {MalformedToken}}
    \cup {{[scheme |-> "Bearer", token |-> encode(t.claims, "k2")]} : t \in tokens}
    \cup {{[scheme |-> "Basic", token |-> t]} : t \in tokens}

\* signup has stored the account.
AccountStored ==
    /\ users = {} /\ tokens = {}
    /\ users' = {SampleUser}
    /\ UNCHANGED <<nextId, started, h, origin, now, tokenVars, checkinVars, auxVars>>

\* The account is renamed in the store.
AccountRenamed ==
    /\ \E u \in users :
          /\ u.first_name # "Z"
          /\ users' = (users \ {u}) \cup {[u EXCEPT !.first_name = "Z"]}
    /\ UNCHANGED <<nextId, started, h, origin, now, tokenVars, checkinVars, auxVars>>

\* The account is deleted from the store.
AccountDeleted ==
    /\ users # {}
    /\ users' = {}
    /\ UNCHANGED <<nextId, started, h, origin, now, tokenVars, checkinVars, auxVars>>

\* signin issues the account its token.
SigninIssues ==
    /\ tokens = {}
    /\ \E u \in users : IssueToken(u, ServerSecret)

\* Time passes; the runs of the extractor at the earlier clock are
\* forgotten.
ClockAdvances ==
    /\ \E t \in Instants : t > now /\ now' = t
    /\ extracted' = <<>>
    /\ UNCHANGED <<authVars, tokenVars, checkinVars, raised, hashed, orphaned>>

\* A request to a protected route: the extractor runs at the current
\* clock.  The last two runs with the same header at the same clock are
\* kept, each with the store it ran against.
Extract(header) ==
    /\ LET run == [header |-> header, at |-> now, store |-> users,
                   result |-> authenticate(header, ServerSecret, now)]
           last == extracted[Len(extracted)]
       IN  extracted' = IF extracted = <<>> THEN <<run>>
                        ELSE IF last.header = header /\ last.at = now
                        THEN <<last, run>>
                        ELSE <<run>>
    /\ UNCHANGED <<authVars, now, tokenVars, checkinVars, raised, hashed, orphaned>>

NextExtract ==
    \/ AccountStored
    \/ AccountRenamed
    \/ AccountDeleted
    \/ SigninIssues
    \/ ClockAdvances
    \/ \E header \in Headers : Extract(header)

SpecExtract == Init /\ [][NextExtract]_vars

\* The token of a run of the extractor the server issued, signed with its
\* secret, presented as "Bearer <token>" before its expiry.
ValidBearer(run) ==
    \E hd \in run.header :
        /\ hd.scheme = "Bearer"
        /\ hd.token \in tokens
        /\ hd.token.sig = Mac(hd.token.claims, ServerSecret)
        /\ run.at < hd.token.claims.exp

OwnerNamingCheckins == {[user |-> v] @@ BaseCheckin : v \in Identities}

\* Check-ins are created by any identity, with and without an owner named
\* in the body, and listed without a date filter.
NextOwner ==
    \/ \E u \in Identities : \E p \in {BaseCheckin} \cup OwnerNamingCheckins :
          CreateCheckin(u, p)
    \/ \E u \in Identities : \E pg \in Paginations : ListCount(u, {}, {}, pg)
    \/ ListFind
    \/ WallTick

SpecOwner == Init /\ [][NextOwner]_vars

\* C14: the check-in a successful create-check-in adds and returns is owned
\* by the identity of the request, whatever the body names; every stored
\* check-in was so created; and every check-in list-check-ins returns is
\* owned by the identity that asked.
C14_OwnerIsolation ==
    /\ \A r \in ckResp : (r.op = "create" /\ r.resp.success) =>
          /\ r.resp.body.user = r.user
          /\ \A c \in checkins \ r.before : c.user = r.user
          /\ \E c \in checkins \ r.before : PublicCheckin_from(c) = r.resp.body
    /\ \A r \in ckResp : (r.op = "list" /\ r.resp.success) =>
          \A i \in DOMAIN r.resp.body : r.resp.body[i].user = r.user

\* C14 witness: identity 1 has created a check-in with a body naming
\* owner 2, while identity 2 holds a check-in of its own.
C14_Witness ==
    \E r \in ckResp :
        /\ r.op = "create" /\ r.resp.success
        /\ r.user = 1
        /\ "user" \in DOMAIN r.req /\ r.req.user = 2
        /\ \E c \in checkins : c.user = 2

\* Listing while another identity's check-in is stored: identity 1 is
\* answered its own check-in and not the stored check-in of identity 2.
C14_ListReached ==
    \E r \in ckResp :
        /\ r.op = "list" /\ r.resp.success /\ r.user = 1
        /\ Len(r.resp.body) = 1
        /\ \E c \in r.before : c.user = 2

\* The calendar year and month of a timestamp between 2024-12-01 and
\* 2025-02-28: 2025-01-01 is day 20089 of the epoch and 2025-02-01 is day
\* 20120.
YearMonthOf(ts) ==
    IF ts[1] < 20089 THEN <<2024, 12>>
    ELSE IF ts[1] < 20120 THEN <<2025, 1>>
    ELSE <<2025, 2>>

\* The check-ins of a collection a list request must match: the caller's,
\* and when both month and year are given, those created in that month.
Expected(r, coll) ==
    {c \in coll :
        /\ c.user = r.user
        /\ (r.req.month # {} /\ r.req.year # {}) =>
              \E m \in r.req.month : \E y \in r.req.year :
                  YearMonthOf(c.created_at) = <<y, m>>}

\* C15: a list request with month in 1..12 and a year is answered the
\* caller's check-ins created in that calendar month (UTC), December
\* running to 1 January of the next year; a list request without month or
\* without year is answered all of the caller's check-ins.  The count is
\* that of the matched set, every document of the page is in it, and a page
\* from offset 0 that is not full holds all of it.
C15_DateFilter ==
    \A r \in ckResp :
        (r.op = "list"
            /\ (r.req.month = {} \/ r.req.year = {}
                    \/ \E m \in r.req.month : m >= 1 /\ m <= 12)) =>
            /\ r.resp.success
            /\ r.resp.pagination.count = Cardinality(Expected(r, r.counted))
            /\ \A i \in DOMAIN r.resp.body :
                  \E c \in Expected(r, r.before) :
                      r.resp.body[i] = PublicCheckin_from(c)
            /\ (r.req.offset = 0 /\ Len(r.resp.body) < r.req.limit) =>
                  \A c \in Expected(r, r.before) :
                      \E i \in DOMAIN r.resp.body :
                          r.resp.body[i] = PublicCheckin_from(c)

\* C15 witness: with a check-in of the last millisecond of 2024 and one of
\* the first millisecond of 2025 stored, the caller asked for December
\* 2024 and was answered the first alone.
C15_Witness ==
    \E r \in ckResp :
        /\ r.op = "list" /\ r.resp.success
        /\ r.req.month = {12} /\ r.req.year = {2024}
        /\ \E c \in r.before : c.user = r.user /\ c.created_at = WallInstants[1]
        /\ \E c \in r.before : c.user = r.user /\ c.created_at = WallInstants[2]
        /\ r.resp.pagination.count = 1
        /\ Len(r.resp.body) = 1
        /\ r.resp.body[1].created_at = WallInstants[1]

\* A list request for January 2025 is answered the check-in of the last
\* millisecond of January and not the one of 1 February, 00:00.
C15_JanuaryReached ==
    \E r \in ckResp :
        /\ r.op = "list" /\ r.resp.success
        /\ r.req.month = {1} /\ r.req.year = {2025}
        /\ \E c \in r.before : c.user = r.user /\ c.created_at = WallInstants[4]
        /\ Len(r.resp.body) = 1
        /\ r.resp.body[1].created_at = WallInstants[3]

\* ------------------------------------------- the password hasher alone

\* The outcomes of awaiting tokio::task::spawn_blocking: the closure's
\* value, or a JoinError (the task was cancelled or panicked).
JoinOutcomes == {"Joined", "JoinError"}

\* The outcomes of bcrypt::hash: the hash, or a BcryptError.
BcryptOutcomes == {"Hashed", "BcryptError"}

\* user::hash_password with the dispatch: a JoinError becomes RunSyncTask,
\* a BcryptError becomes HashPassword.
hash_password_dispatched(join, outcome, password, salt) ==
    IF join = "JoinError" THEN ErrR(Err("RunSyncTask", "", "JoinError"))
    ELSE IF outcome = "BcryptError" THEN ErrR(Err("HashPassword", "", "BcryptError"))
    ELSE hash_password(password, salt)

\* user::verify_password with the dispatch: a JoinError becomes RunSyncTask.
verify_password_dispatched(join, password, hash) ==
    IF join = "JoinError" THEN ErrR(Err("RunSyncTask", "", "JoinError"))
    ELSE verify_password(password, hash)

\* The strings a password column may hold: the hashes of the passwords,
\* and strings that are no bcrypt hash (a password in clear, the empty
\* string, a prefix without salt, a hash under another prefix).
StoredHashes ==
    {BcryptHash(p, s) : p \in Passwords, s \in Salts}
    \cup {Pw9, <<>>, <<BcryptPrefix>>, <<"$1$", "saltA">> \o Pw9}

\* The last two calls, with what they returned.
Called(call) ==
    hashed' = IF hashed = <<>> THEN <<call>> ELSE <<hashed[Len(hashed)], call>>

\* A call of user::hash_password
HashCall(join, outcome, password, salt) ==
    /\ Called([op |-> "hash", join |-> join, outcome |-> outcome,
               password |-> password, salt |-> salt,
               result |-> hash_password_dispatched(join, outcome, password, salt)])
    /\ UNCHANGED <<authVars, now, tokenVars, checkinVars, raised, extracted, orphaned>>

\* A call of user::verify_password
VerifyCall(join, password, hash) ==
    /\ Called([op |-> "verify", join |-> join, password |-> password,
               hash |-> hash,
               result |-> verify_password_dispatched(join, password, hash)])
    /\ UNCHANGED <<authVars, now, tokenVars, checkinVars, raised, extracted, orphaned>>

NextHasher ==
    \/ \E j \in JoinOutcomes : \E o \in BcryptOutcomes :
          \E p \in Passwords : \E sl \in Salts : HashCall(j, o, p, sl)
    \/ \E j \in JoinOutcomes : \E p \in Passwords : \E hs \in StoredHashes :
          VerifyCall(j, p, hs)

SpecHasher == Init /\ [][NextHasher]_vars

\* A well-formed stored hash: the bcrypt hash of some password.
WellFormed(hash) ==
    /\ Len(hash) >= 2
    /\ hash[1] = BcryptPrefix
    /\ hash[2] \in Salts

\* C16: verify_password on a well-formed hash returns Ok(true) or Ok(false)
\* according to whether the hash is the password's; it returns
\* InvalidPassword exactly when the task ran and the hash is malformed, and
\* RunSyncTask exactly when the task did not run.  hash_password returns
\* RunSyncTask exactly when the task did not run, HashPassword exactly when
\* it ran and bcrypt failed, and the hash otherwise.  The two kinds answer
\* different codes.
C16_HasherErrors ==
    /\ \A i \in DOMAIN hashed : hashed[i].op = "verify" =>
          LET c == hashed[i]
          IN  IF c.join = "JoinError"
              THEN ~c.result.ok /\ c.result.err.kind = "RunSyncTask"
              ELSE IF WellFormed(c.hash)
              THEN /\ c.result.ok
                   /\ c.result.val =
                         (SubSeq(c.hash, 3, Len(c.hash)) = c.password)
              ELSE ~c.result.ok /\ c.result.err.kind = "InvalidPassword"
    /\ \A i \in DOMAIN hashed : hashed[i].op = "hash" =>
          LET c == hashed[i]
          IN  IF c.join = "JoinError"
              THEN ~c.result.ok /\ c.result.err.kind = "RunSyncTask"
              ELSE IF c.outcome = "BcryptError"
              THEN ~c.result.ok /\ c.result.err.kind = "HashPassword"
              ELSE /\ c.result.ok
                   /\ WellFormed(c.result.val)
                   /\ SubSeq(c.result.val, 3, Len(c.result.val)) = c.password
    /\ get_codes(Err("RunSyncTask", "", ""))[2] # get_codes(Err("HashPassword", "", ""))[2]
    /\ get_codes(Err("RunSyncTask", "", ""))[2] # get_codes(Err("InvalidPassword", "", ""))[2]

\* C16 witness: verify_password has returned Ok(false) on the hash of
\* another password, and then InvalidPassword on a password stored in
\* clear that equals the password given.
C16_Witness ==
    /\ Len(hashed) = 2
    /\ hashed[1].op = "verify" /\ hashed[1].join = "Joined"
    /\ WellFormed(hashed[1].hash)
    /\ hashed[1].result = OkR(FALSE)
    /\ hashed[2].op = "verify" /\ hashed[2].join = "Joined"
    /\ hashed[2].hash = hashed[2].password
    /\ ~hashed[2].result.ok

\* Both failures of hash_password have happened, one after the other.
C16_HashFailuresReached ==
    /\ Len(hashed) = 2
    /\ hashed[1].op = "hash" /\ hashed[2].op = "hash"
    /\ ~hashed[1].result.ok /\ hashed[1].result.err.kind = "RunSyncTask"
    /\ ~hashed[2].result.ok /\ hashed[2].result.err.kind = "HashPassword"

\* --------------------------------------------- signup under failures

\* auth.rs:97-98 when hash_password returns an error: `?` returns it and
\* nothing has been stored.
SignupHashFails(r) ==
    /\ h[r].pc = "signup_hash"
    /\ \E j \in JoinOutcomes : \E o \in BcryptOutcomes : \E salt \in Salts :
          LET password_hash ==
                  hash_password_dispatched(j, o, Payload(r).password, salt)
          IN  /\ ~password_hash.ok
              /\ h' = [h EXCEPT ![r] =
                          Return(r, into_response(password_hash.err), "hash_failed")]
    /\ UNCHANGED <<users, nextId, started, now, origin, tokenVars, checkinVars, auxVars>>

\* SignupTokenFails followed by a compensating delete of the account.
SignupTokenFails_with_rollback(r) ==
    /\ h[r].pc = "signup_token"
    /\ LET user == CHOOSE u \in h[r].user : TRUE
       IN  /\ h' = [h EXCEPT ![r] = Return(r,
                        into_response(Err("TokenCreation", "", "encode failed")),
                        "token_failed")]
           /\ orphaned' = orphaned \cup {IdOf(user)}
           /\ users' = users \ {user}
    /\ UNCHANGED <<nextId, started, now, origin, tokenVars, checkinVars,
                   raised, extracted, hashed>>

\* auth.rs:113-114 when token::create returns Err(TokenCreation): `?`
\* returns it.  The account User::create stored stays.
SignupTokenFails(r) ==
    /\ h[r].pc = "signup_token"
    /\ LET user == CHOOSE u \in h[r].user : TRUE
       IN  /\ h' = [h EXCEPT ![r] = Return(r,
                        into_response(Err("TokenCreation", "", "encode failed")),
                        "token_failed")]
           /\ orphaned' = orphaned \cup {IdOf(user)}
    /\ UNCHANGED <<users, nextId, started, now, origin, tokenVars, checkinVars,
                   raised, extracted, hashed>>

\* The signup stops at an await or after User::create returned (the
\* process dies or the connection is closed and the future is dropped): no
\* response is sent and the store is left as it is.
SignupStops(r) ==
    /\ h[r].op = "signup"
    /\ h[r].pc \in {"signup_find", "signup_hash", "signup_create", "signup_token"}
    /\ h' = [h EXCEPT ![r] = Idle]
    /\ orphaned' = IF h[r].pc = "signup_token"
                   THEN orphaned \cup {IdOf(u) : u \in h[r].user}
                   ELSE orphaned
    /\ UNCHANGED <<users, nextId, started, now, origin, tokenVars, checkinVars,
                   raised, extracted, hashed>>

\* The signup followed through its failures, and the signins that follow
\* it: with its password and with another.
RetriedSignup ==
    [email |-> "a@b.com", password |-> Pw9, first_name |-> "A", last_name |-> "B"]

RecoverySignins == {[email |-> "a@b.com", password |-> pw] : pw \in Passwords}

\* signup and signin, where signup may fail at the hash, fail at the token
\* or stop.
NextFaults ==
    \/ \E r \in Handlers : StartSignup(r, RetriedSignup)
    \/ \E r \in Handlers : SignupFindOne(r)
    \/ \E r \in Handlers : SignupHash(r)
    \/ \E r \in Handlers : SignupCreate(r)
    \/ \E r \in Handlers : SignupToken(r)
    \/ \E r \in Handlers : \E p \in RecoverySignins : StartSignin(r, p)
    \/ \E r \in Handlers : SigninFindOne(r)
    \/ \E r \in Handlers : SigninVerify(r)
    \/ \E r \in Handlers : SigninToken(r)
    \/ \E r \in Handlers : Finish(r)
    \/ \E r \in Handlers : SignupHashFails(r)
    \/ \E r \in Handlers : SignupTokenFails(r)
    \/ \E r \in Handlers : SignupStops(r)

SpecFaults == Init /\ [][NextFaults]_vars

\* The stored account a request names by its email, when it is one whose
\* signup failed at the token or stopped after the create.
OrphanFor(r) ==
    {u \in users : IdOf(u) \in orphaned /\ u.email = Payload(r).email}

\* C17: signup checks, hashes, creates and issues in that order (a hash is
\* held exactly between hash and create, the handler's account exists from
\* the create on, a response with a token comes only after it, and every
\* stored account holds the hash of its signup's password); an account
\* whose signup failed at the token or stopped after the create stays
\* stored, and the failed signup was answered an error without a token; a
\* signup for its email that arrives while it is stored is answered "Email
\* already registered"; a signin with its email and password is answered
\* with success and a token.
C17_SignupOrderNoRollback ==
    /\ \A r \in Handlers : h[r].op = "signup" =>
          /\ h[r].pc \in {"signup_find", "signup_hash"} =>
                h[r].password_hash = {} /\ h[r].user = {}
          /\ h[r].pc = "signup_create" =>
                /\ h[r].user = {}
                /\ \E ph \in h[r].password_hash :
                      verify_password(Payload(r).password, ph) = OkR(TRUE)
          /\ h[r].pc = "signup_token" => h[r].user \subseteq users /\ h[r].user # {}
          /\ h[r].cause = "hash_failed" => h[r].user = {} /\ ~Response(r).success
          /\ (h[r].pc = "done" /\ Response(r).success) =>
                h[r].user \subseteq users /\ h[r].user # {}
    /\ \A u \in users :
          verify_password(origin[IdOf(u)].password, u.password) = OkR(TRUE)
    /\ \A id \in orphaned : \E u \in users : IdOf(u) = id
    /\ \A r \in Handlers : h[r].cause = "token_failed" =>
          /\ h[r].user \subseteq users
          /\ ~Response(r).success
          /\ "data" \notin DOMAIN Response(r)
    /\ \A r \in Handlers :
          (h[r].op = "signup" /\ h[r].held /\ h[r].pc = "done"
              /\ OrphanFor(r) # {}) =>
                 Response(r) = EmailRegisteredResponse
    /\ \A r \in Handlers :
          (h[r].op = "signin" /\ h[r].held /\ h[r].pc = "done"
              /\ \E u \in OrphanFor(r) :
                    origin[IdOf(u)].password = Payload(r).password) =>
                 /\ Response(r).success
                 /\ "claims" \in DOMAIN Response(r).data.token
                 /\ Response(r).data.email = Payload(r).email

\* C17 witness: after a signup that ended tokenless with its account
\* stored, a second signup with the same body has been refused and a signin
\* with its email and password has been answered with a token.
C17_Witness ==
    \E r \in Handlers : \E q \in Handlers :
        /\ orphaned # {}
        /\ h[r].op = "signup" /\ h[r].held /\ h[r].pc = "done"
        /\ OrphanFor(r) # {}
        /\ ~Response(r).success
        /\ h[q].op = "signin" /\ h[q].held /\ h[q].pc = "done"
        /\ OrphanFor(q) # {}
        /\ Response(q).success

\* A signup has been answered the TokenCreation error with its account
\* stored.
C17_TokenFailureReached ==
    \E r \in Handlers :
        /\ h[r].cause = "token_failed"
        /\ Response(r).status = 500 /\ Response(r).error = 40007
        /\ h[r].user \subseteq users /\ h[r].user # {}

====
